---------------------------- MODULE Spec2Model ----------------------------
(***************************************************************************)
(* ginsta: extraction of the GPS telemetry that an action camera appends   *)
(* to its video files as a trailer-indexed frame container.                *)
(*                                                                         *)
(* Two binaries of the repository are modelled:                            *)
(*   ginsta  (src/src/main.rs)        trailer -> index frame -> GPS frames *)
(*   insgps  (src/src/bin/insgps.rs)  a bare GPS payload -> records        *)
(*                                                                         *)
(* A file is a sequence of bytes (0..255).  File positions are 0-based, as *)
(* in the source; TLA+ sequences are 1-based, so byte k of the file is     *)
(* file[k+1].                                                              *)
(*                                                                         *)
(* Number representations:                                                 *)
(*   u8/u16/i32      integers                                              *)
(*   u32             [lo, hi]: the two 16-bit halves; a u32 becomes an     *)
(*                   integer where the source casts it to u64 or usize,    *)
(*                   and the inputs keep those below 2^31                  *)
(*   u64 positions   integers, a value v >= 2^63 kept as v - 2^64 (its i64 *)
(*                   reinterpretation, which is what File::seek hands to   *)
(*                   lseek)                                                *)
(*   u64 timestamp   [lo, hi]: the two 32-bit halves, each a u32           *)
(*   f64             [sign, bits]: the sign bit and the 8 bytes with the   *)
(*                   sign bit cleared (the IEEE-754 magnitude)             *)
(***************************************************************************)
EXTENDS Integers, Sequences, FiniteSets, TLC

----------------------------------------------------------------------------
(* Sequence helpers *)

Take(s, n) == SubSeq(s, 1, n)

Drop(s, n) == SubSeq(s, n + 1, Len(s))

\* Bytes [at, at+len) of s, 0-based
Slice(s, at, len) == SubSeq(s, at + 1, at + len)

RECURSIVE Concat(_)
Concat(ss) == IF ss = <<>> THEN <<>> ELSE Head(ss) \o Concat(Tail(ss))

\* All sequences over S of length 0..n
SeqUpTo(S, n) == UNION {[1..k -> S] : k \in 0..n}

----------------------------------------------------------------------------
(* nom parser results: Ok((rest, val)) or Err *)

POk(rest, val) == [ok |-> TRUE, rest |-> rest, val |-> <<val>>]

PErr == [ok |-> FALSE, rest |-> <<>>, val |-> <<>>]

Val(r) == r.val[1]

(* nom::number, nom::bytes, nom::character, nom::combinator primitives in   *)
(* complete mode: too little input is an error                              *)

le_u16(i) ==
    IF Len(i) < 2 THEN PErr
    ELSE POk(Drop(i, 2), i[1] + 256 * i[2])

le_u32(i) ==
    IF Len(i) < 4 THEN PErr
    ELSE POk(Drop(i, 4), [lo |-> i[1] + 256 * i[2], hi |-> i[3] + 256 * i[4]])

\* `as u64` and `as usize` of a u32
AsU64(u) == u.lo + 65536 * u.hi

U32Zero == [lo |-> 0, hi |-> 0]

le_i32(i) ==
    IF Len(i) < 4 THEN PErr
    ELSE POk(Drop(i, 4),
             IF i[4] >= 128
             THEN (i[1] + 256 * i[2] + 65536 * i[3] + 16777216 * (i[4] - 128))
                  - 2147483647 - 1
             ELSE i[1] + 256 * i[2] + 65536 * i[3] + 16777216 * i[4])

le_u64(i) ==
    IF Len(i) < 8 THEN PErr
    ELSE POk(Drop(i, 8), [lo |-> Val(le_u32(Take(i, 4))),
                          hi |-> Val(le_u32(Slice(i, 4, 4)))])

le_f64(i) ==
    IF Len(i) < 8 THEN PErr
    ELSE POk(Drop(i, 8), [sign |-> i[8] \div 128,
                          bits |-> Take(i, 7) \o <<i[8] % 128>>])

take(n, i) == IF Len(i) < n THEN PErr ELSE POk(Drop(i, n), Take(i, n))

tag(t, i) ==
    IF Len(i) >= Len(t) /\ Take(i, Len(t)) = t
    THEN POk(Drop(i, Len(t)), t)
    ELSE PErr

one_of(list, i) ==
    IF Len(i) >= 1 /\ (\E k \in 1..Len(list) : list[k] = i[1])
    THEN POk(Drop(i, 1), i[1])
    ELSE PErr

eof(i) == IF Len(i) = 0 THEN POk(i, <<>>) ELSE PErr

----------------------------------------------------------------------------
(* f64 arithmetic used by the decoders and by the sign law *)

\* exponent all ones and a non-zero mantissa
F64IsNaN(f) ==
    /\ f.bits[8] = 127
    /\ f.bits[7] >= 240
    /\ \/ f.bits[7] > 240
       \/ \E k \in 1..6 : f.bits[k] # 0

F64IsZero(f) == \A k \in 1..8 : f.bits[k] = 0

\* unary minus flips the sign bit, whatever the value
F64Neg(f) == [sign |-> 1 - f.sign, bits |-> f.bits]

\* f < 0.0 (false for -0.0 and for NaN)
F64Lt0(f) == f.sign = 1 /\ ~F64IsZero(f) /\ ~F64IsNaN(f)

\* f > 0.0
F64Gt0(f) == f.sign = 0 /\ ~F64IsZero(f) /\ ~F64IsNaN(f)

----------------------------------------------------------------------------
(* src/src/main.rs: constants *)

HEADER_SIZE == 78

FRAME_HEADER_SIZE == 6

SIGNATURE ==
    <<56, 100, 98, 52, 50, 100, 54, 57, 52, 99, 99, 99, 52, 49, 56, 55,
      57, 48, 101, 100, 102, 102, 52, 51, 57, 102, 101, 48, 50, 54, 98, 102>>

\* b'N', b'S' and b'E', b'W'
NS == <<78, 83>>

EW == <<69, 87>>

CharS == 83

CharW == 87

\* What the parsers of one GPS record consume: 8+3+8+1+8+1+8+8+8 in main.rs,
\* 4+7+8+1+8+1+8+8+8 in insgps.rs
GPS_RECORD_SIZE == 53

\* What parse_index consumes: 1+1+4+4
INDEX_ENTRY_SIZE == 10

----------------------------------------------------------------------------
(* src/src/main.rs: the trailer *)

parse_trailer_metadata(data) ==
    LET id == le_u16(data) IN
    IF ~id.ok THEN PErr
    ELSE LET size == le_u32(id.rest) IN
         IF ~size.ok THEN PErr
         ELSE POk(size.rest, [id |-> Val(id), size |-> Val(size)])

\* count(parse_trailer_metadata, n)
RECURSIVE count_trailer_metadata(_, _, _)
count_trailer_metadata(n, i, res) ==
    IF n = 0 THEN POk(i, res)
    ELSE LET r == parse_trailer_metadata(i) IN
         IF ~r.ok THEN PErr
         ELSE count_trailer_metadata(n - 1, r.rest, Append(res, Val(r)))

\* header_parser with the signature taken, not compared
header_parser_unchecked(header) ==
    LET metadata == count_trailer_metadata(7, header, <<>>) IN
    IF ~metadata.ok THEN PErr
    ELSE LET version_num == le_i32(metadata.rest) IN
         IF ~version_num.ok THEN PErr
         ELSE LET signature == take(Len(SIGNATURE), version_num.rest) IN
              IF ~signature.ok THEN PErr
              ELSE POk(signature.rest,
                       [version_num   |-> Val(version_num),
                        signature     |-> Val(signature),
                        metadata      |-> Val(metadata),
                        metadata_size |-> Val(metadata)[Len(Val(metadata))].size])

header_parser(header) ==
    LET metadata == count_trailer_metadata(7, header, <<>>) IN
    IF ~metadata.ok THEN PErr
    ELSE LET version_num == le_i32(metadata.rest) IN
         IF ~version_num.ok THEN PErr
         ELSE LET signature == tag(SIGNATURE, version_num.rest) IN
              IF ~signature.ok THEN PErr
              ELSE POk(signature.rest,
                       [version_num   |-> Val(version_num),
                        signature     |-> Val(signature),
                        metadata      |-> Val(metadata),
                        metadata_size |-> Val(metadata)[Len(Val(metadata))].size])

----------------------------------------------------------------------------
(* src/src/main.rs: frame types *)

\* The variants with discriminants 0..24, in order; Raw = -1 is apart
FrameTypeNames ==
    <<"Index", "Info", "Thumbnail", "Gyro", "Exposure", "ThumbnailExt",
      "Timelapse", "Gps", "StarNum", "ThreeAInTimestamp", "Anchors",
      "ThreeASimulation", "ExposureSecondary", "Magnetic", "Euler",
      "GyroSecondary", "Speed", "Tbox", "Editor", "Heartrate",
      "ForwardDirection", "Upview", "ShellRecognitionData", "Pos",
      "TimelapseQuat">>

FrameType == {"Raw"} \cup {FrameTypeNames[k] : k \in 1..Len(FrameTypeNames)}

\* #[derive(FromPrimitive)]: from_i64 compares n with every discriminant;
\* the result is <<variant>> (Some) or <<>> (None)
FrameType_from_i64(n) ==
    IF n = -1 THEN <<"Raw">>
    ELSE IF n >= 0 /\ n < Len(FrameTypeNames) THEN <<FrameTypeNames[n + 1]>>
    ELSE <<>>

\* FrameTypeOf with unwrap_or(FrameType::Gps)
FrameTypeOf_gps_default(code) ==
    LET opt == FrameType_from_i64(code) IN
    IF opt = <<>> THEN "Gps" ELSE opt[1]

\* FrameType::from_u8(code).unwrap_or(FrameType::Raw); from_u8 widens the
\* unsigned byte, so no byte reaches the discriminant -1
FrameTypeOf(code) ==
    LET opt == FrameType_from_i64(code) IN
    IF opt = <<>> THEN "Raw" ELSE opt[1]

----------------------------------------------------------------------------
(* src/src/main.rs: the frame footer and the index frame *)

frame_trailer(frame) ==
    LET frame_ver == take(1, frame) IN
    IF ~frame_ver.ok THEN PErr
    ELSE LET frame_type_code == take(1, frame_ver.rest) IN
         IF ~frame_type_code.ok THEN PErr
         ELSE LET frame_size == le_i32(frame_type_code.rest) IN
              IF ~frame_size.ok THEN PErr
              ELSE POk(frame_size.rest,
                       [frame_version |-> Val(frame_ver)[1],
                        frame_type    |-> FrameTypeOf(Val(frame_type_code)[1]),
                        frame_size    |-> Val(frame_size)])

parse_index(input) ==
    LET frame_type == take(1, input) IN
    IF ~frame_type.ok THEN PErr
    ELSE LET version == take(1, frame_type.rest) IN
         IF ~version.ok THEN PErr
         ELSE LET size == le_u32(version.rest) IN
              IF ~size.ok THEN PErr
              ELSE LET offset == le_u32(size.rest) IN
                   IF ~offset.ok THEN PErr
                   ELSE POk(offset.rest,
                            [frame_version |-> Val(version)[1],
                             frame_type    |-> FrameTypeOf(Val(frame_type)[1]),
                             frame_size    |-> Val(size),
                             frame_offset  |-> Val(offset)])

\* many_till(parse_index, eof): eof is tried first; an error of parse_index,
\* or a parse that consumes nothing, fails the whole parse
RECURSIVE many_till_index(_, _)
many_till_index(i, res) ==
    IF eof(i).ok THEN POk(i, res)
    ELSE LET r == parse_index(i) IN
         IF ~r.ok \/ Len(r.rest) = Len(i) THEN PErr
         ELSE many_till_index(r.rest, Append(res, Val(r)))

parse_index_frame(frame) ==
    LET r == many_till_index(frame, <<>>) IN
    IF ~r.ok THEN PErr ELSE POk(r.rest, [frames |-> Val(r)])

----------------------------------------------------------------------------
(* src/src/main.rs and src/src/bin/insgps.rs: GPS records *)

\* SignedCoord negating the other hemisphere
SignedCoord_inverted(value, hemisphere, negative) ==
    IF hemisphere # negative THEN F64Neg(value) ELSE value

\* if northsouth == 'S' { -latitude } else { latitude }, and the same for
\* eastwest == 'W'
SignedCoord(value, hemisphere, negative) ==
    IF hemisphere = negative THEN F64Neg(value) ELSE value

\* The seven fields after the timestamp and the padding, the same in both
\* binaries
GpsFields(timestamp, i) ==
    LET latitude == le_f64(i) IN
    IF ~latitude.ok THEN PErr
    ELSE LET northsouth == one_of(NS, latitude.rest) IN
    IF ~northsouth.ok THEN PErr
    ELSE LET longitude == le_f64(northsouth.rest) IN
    IF ~longitude.ok THEN PErr
    ELSE LET eastwest == one_of(EW, longitude.rest) IN
    IF ~eastwest.ok THEN PErr
    ELSE LET speed == le_f64(eastwest.rest) IN
    IF ~speed.ok THEN PErr
    ELSE LET track == le_f64(speed.rest) IN
    IF ~track.ok THEN PErr
    ELSE LET altitude == le_f64(track.rest) IN
    IF ~altitude.ok THEN PErr
    ELSE POk(altitude.rest,
             [timestamp |-> timestamp,
              latitude  |-> SignedCoord(Val(latitude), Val(northsouth), CharS),
              longitude |-> SignedCoord(Val(longitude), Val(eastwest), CharW),
              speed     |-> Val(speed),
              track     |-> Val(track),
              altitude  |-> Val(altitude)])

\* main.rs: le_u64 timestamp, take(3)
parse_gps_record(frame) ==
    LET timestamp == le_u64(frame) IN
    IF ~timestamp.ok THEN PErr
    ELSE LET pad == take(3, timestamp.rest) IN
         IF ~pad.ok THEN PErr
         ELSE GpsFields(Val(timestamp), pad.rest)

RECURSIVE many_till_gps(_, _)
many_till_gps(i, res) ==
    IF eof(i).ok THEN POk(i, res)
    ELSE LET r == parse_gps_record(i) IN
         IF ~r.ok \/ Len(r.rest) = Len(i) THEN PErr
         ELSE many_till_gps(r.rest, Append(res, Val(r)))

\* parse_gps_frame pushing every record at the front
RECURSIVE many_till_gps_front(_, _)
many_till_gps_front(i, res) ==
    IF eof(i).ok THEN POk(i, res)
    ELSE LET r == parse_gps_record(i) IN
         IF ~r.ok \/ Len(r.rest) = Len(i) THEN PErr
         ELSE many_till_gps_front(r.rest, <<Val(r)>> \o res)

parse_gps_frame_reversed(frame) ==
    LET r == many_till_gps_front(frame, <<>>) IN
    IF ~r.ok THEN PErr ELSE POk(r.rest, [records |-> Val(r)])

\* parse_gps_frame as many0(parse_gps_record): it stops at the first record
\* that does not parse and keeps the ones before
RECURSIVE many0_gps(_, _)
many0_gps(i, res) ==
    LET r == parse_gps_record(i) IN
    IF ~r.ok \/ Len(r.rest) = Len(i) THEN POk(i, res)
    ELSE many0_gps(r.rest, Append(res, Val(r)))

parse_gps_frame_lenient(frame) ==
    LET r == many0_gps(frame, <<>>) IN
    POk(r.rest, [records |-> Val(r)])

\* assert_eq!(0, rest.len()) cannot fail: many_till ends only on eof
parse_gps_frame(frame) ==
    LET r == many_till_gps(frame, <<>>) IN
    IF ~r.ok THEN PErr ELSE POk(r.rest, [records |-> Val(r)])

\* insgps.rs: le_u32 timestamp widened to u64, take(7)
ins_parse_gps_record(frame) ==
    LET timestamp == le_u32(frame) IN
    IF ~timestamp.ok THEN PErr
    ELSE LET pad == take(7, timestamp.rest) IN
         IF ~pad.ok THEN PErr
         ELSE GpsFields([lo |-> Val(timestamp), hi |-> U32Zero], pad.rest)

RECURSIVE ins_many_till_gps(_, _)
ins_many_till_gps(i, res) ==
    IF eof(i).ok THEN POk(i, res)
    ELSE LET r == ins_parse_gps_record(i) IN
         IF ~r.ok \/ Len(r.rest) = Len(i) THEN PErr
         ELSE ins_many_till_gps(r.rest, Append(res, Val(r)))

parse_gps_records(frame) ==
    LET r == ins_many_till_gps(frame, <<>>) IN
    IF ~r.ok THEN PErr ELSE POk(r.rest, Val(r))

----------------------------------------------------------------------------
(* Input files.  The encoders are the inverses of the layouts the parsers  *)
(* above read; they only build the inputs the programs are run on.         *)

\* Records per GPS payload handed to insgps or put alone in a container
MaxRecords == 2

\* Index entries per container
MaxEntries == 2

enc_u16(v) == <<v % 256, v \div 256>>

enc_u32(v) ==
    <<v % 256, (v \div 256) % 256, (v \div 65536) % 256, v \div 16777216>>

enc_i32(v) ==
    IF v >= 0 THEN enc_u32(v)
    ELSE LET u == (v + 2147483647) + 1
         IN  <<u % 256, (u \div 256) % 256, (u \div 65536) % 256,
               (u \div 16777216) + 128>>

\* f64 bit patterns, little-endian: 50.0, -50.0, 4.0, -4.0, 0.0, a NaN
F64Pos50 == <<0, 0, 0, 0, 0, 0, 73, 64>>

F64Neg50 == <<0, 0, 0, 0, 0, 0, 73, 192>>

F64Pos4 == <<0, 0, 0, 0, 0, 0, 16, 64>>

F64Neg4 == <<0, 0, 0, 0, 0, 0, 16, 192>>

F64Zero == <<0, 0, 0, 0, 0, 0, 0, 0>>

F64NaN == <<0, 0, 0, 0, 0, 0, 248, 127>>

\* One encoded GPS record: 4 timestamp bytes, 4 bytes that main.rs reads as
\* the timestamp's high half and insgps.rs as padding, 3 bytes of padding,
\* then latitude, hemisphere, longitude, hemisphere, speed, track, altitude
GpsRecordBytes(ts, hi, lat, ns, lon, ew) ==
    enc_u32(ts) \o enc_u32(hi) \o <<170, 187, 204>>
    \o lat \o <<ns>> \o lon \o <<ew>>
    \o F64Zero \o <<1, 2, 3, 4, 5, 6, 116, 64>> \o <<9, 8, 7, 6, 5, 4, 85, 64>>

\* Records both parsers accept: every latitude magnitude with both
\* hemispheres, and the longitudes that matter with 'W'
GoodRecords ==
    {GpsRecordBytes(1752824362, 0, lat, ns, F64Pos4, 69) :
        lat \in {F64Pos50, F64Zero, F64Neg50}, ns \in {78, 83}}
    \cup {GpsRecordBytes(77, 1, F64Pos50, 78, lon, 87) :
        lon \in {F64Pos4, F64Zero, F64Neg4}}
    \cup {GpsRecordBytes(78, 0, F64NaN, 83, F64Pos4, 69)}

\* Records with a byte other than N/S or E/W in a hemisphere position
BadRecords ==
    {GpsRecordBytes(5, 0, F64Pos50, 88, F64Pos4, 69),
     GpsRecordBytes(6, 0, F64Pos50, 78, F64Pos4, 110)}

RecordA == GpsRecordBytes(1752824362, 0, F64Pos50, 78, F64Pos4, 69)

RecordB == GpsRecordBytes(77, 1, F64Pos50, 78, F64Pos4, 87)

\* Bytes left over after the last whole record
Residues == {<<>>, <<7>>, Take(RecordA, GPS_RECORD_SIZE - 1)}

\* GPS payloads: up to MaxRecords records, then a residue
GpsPayloads ==
    {Concat(rs) \o tail :
        rs \in SeqUpTo(GoodRecords \cup BadRecords, MaxRecords),
        tail \in Residues}

\* An index entry to build: the raw type code, the frame's payload and the
\* bytes by which the size written in the index exceeds the payload
Entry(code, payload, excess) ==
    [code |-> code, payload |-> payload, excess |-> excess]

\* Entries the containers are assembled from: GPS frames (empty, one and
\* two records, a bad hemisphere, a ragged end, an oversized length), a
\* frame of a known other type (Gyro = 3) and one of an unknown type (99)
EntryPool ==
    {Entry(7, p, 0) : p \in {<<>>, RecordA, RecordA \o RecordB,
                             RecordB \o GpsRecordBytes(5, 0, F64Pos50, 88, F64Pos4, 69),
                             RecordA \o <<7>>}}
    \cup {Entry(7, RecordA, 4096), Entry(3, <<1, 2, 3>>, 0),
          Entry(99, <<4, 5>>, 0)}

RECURSIVE IndexBytes(_, _)
IndexBytes(entries, offset) ==
    IF entries = <<>> THEN <<>>
    ELSE LET e == Head(entries)
         IN  <<e.code, 1>> \o enc_u32(Len(e.payload) + e.excess)
             \o enc_u32(offset)
             \o IndexBytes(Tail(entries), offset + Len(e.payload))

RECURSIVE PayloadBytes(_)
PayloadBytes(entries) ==
    IF entries = <<>> THEN <<>>
    ELSE Head(entries).payload \o PayloadBytes(Tail(entries))

\* The bytes before the metadata block
Video == <<222, 173, 190, 239>>

\* How a trailer departs from a sound one: sig is the signature byte with
\* one bit flipped (0: none), ftype the type code of the footer, fsize what
\* is added to the index payload's length in the footer ("neg": -1 is
\* written), msize what is written as the size of the last descriptor
Variant(sig, ftype, fsize, msize) ==
    [sig |-> sig, ftype |-> ftype, fsize |-> fsize, msize |-> msize]

Sound == Variant(0, 0, "ok", "ok")

Variants ==
    {Sound}
    \cup {Variant(k, 0, "ok", "ok") : k \in {1, 17, 32}}
    \cup {Variant(0, t, "ok", "ok") : t \in {7, 99, 255}}
    \cup {Variant(0, 0, f, "ok") : f \in {"plus1", "neg", "big"}}
    \cup {Variant(0, 0, "ok", m) : m \in {"zero", "over"}}

FlipBit(b) == IF b % 2 = 0 THEN b + 1 ELSE b - 1

SignatureBytes(sig) ==
    [k \in 1..Len(SIGNATURE) |->
        IF k = sig THEN FlipBit(SIGNATURE[k]) ELSE SIGNATURE[k]]

\* video, frame payloads, index payload, then the 78 bytes read as the
\* trailer: the index frame's footer (which is also the first of the 7
\* descriptors), 5 descriptors, the descriptor carrying the size of the
\* metadata block, the version and the signature
Container(entries, v) ==
    LET payloads == PayloadBytes(entries)
        index    == IndexBytes(entries, 0)
        length   == Len(Video) + Len(payloads) + Len(index) + HEADER_SIZE
        fsize    == CASE v.fsize = "ok"    -> Len(index)
                      [] v.fsize = "plus1" -> Len(index) + 1
                      [] v.fsize = "neg"   -> -1
                      [] v.fsize = "big"   -> Len(index) + 100000
        msize    == CASE v.msize = "ok"   -> length - Len(Video)
                      [] v.msize = "zero" -> 0
                      [] v.msize = "over" -> length + 2
    IN  Video \o payloads \o index
        \o <<1, v.ftype>> \o enc_i32(fsize)
        \o Concat([k \in 1..5 |-> enc_u16(k) \o enc_u32(16 * k)])
        \o enc_u16(6) \o enc_u32(msize)
        \o enc_i32(3)
        \o SignatureBytes(v.sig)

\* Every trailer variant over every list of entries, every GPS payload
\* alone in a sound container, and two files too short to hold a trailer
Containers ==
    {Container(es, v) : es \in SeqUpTo(EntryPool, MaxEntries), v \in Variants}
    \cup {Container(<<Entry(7, p, 0)>>, Sound) : p \in GpsPayloads}
    \cup {<<>>, Take(SIGNATURE, 31)}

----------------------------------------------------------------------------
(* State *)

VARIABLES
    prog,             \* the binary that runs: "ginsta" or "insgps"
    overflow_checks,  \* the build: TRUE panics on integer overflow (debug),
                      \* FALSE wraps (release)
    file,             \* the bytes of the file named on the command line
    pc,               \* where main is
    err,              \* why the run failed ("" while it has not)
    pos,              \* the stream position of `file`
    buffer,           \* main.rs: the 78 trailer bytes; insgps.rs: the file
    header,           \* the parsed Trailer
    metadata_pos,
    frame_header_buf,
    footer,           \* main.rs's local frame_trailer, <<>> until parsed
    frame_buf,
    index_frame,      \* index_frame.frames
    cur,              \* index entries the for loop has finished with
    gps_frame_buf,
    gps_frame,        \* the result of parse_gps_frame
    gps_records,      \* insgps.rs: the result of parse_gps_records
    out,              \* the records serialized to stdout, in order
    reads,            \* every read issued on the file: [at, len]
    allocs            \* every vec![0; n] asked for: [at, len], at = pos

ctl == <<prog, overflow_checks, file>>

trailer_vars == <<buffer, header, metadata_pos>>

index_vars == <<frame_header_buf, footer, frame_buf, index_frame, cur>>

gps_vars == <<gps_frame_buf, gps_frame, gps_records>>

io_vars == <<pos, out, reads, allocs>>

vars == <<ctl, pc, err, trailer_vars, index_vars, gps_vars, io_vars>>

Length == Len(file)

Builds == {TRUE, FALSE}

Init ==
    /\ prog \in {"ginsta", "insgps"}
    /\ file \in (IF prog = "ginsta" THEN Containers ELSE GpsPayloads)
    /\ overflow_checks \in (IF prog = "ginsta" THEN Builds ELSE {TRUE})
    /\ pc = (IF prog = "ginsta" THEN "open" ELSE "ins_read")
    /\ err = ""
    /\ pos = 0
    /\ buffer = <<>>
    /\ header = <<>>
    /\ metadata_pos = 0
    /\ frame_header_buf = <<>>
    /\ footer = <<>>
    /\ frame_buf = <<>>
    /\ index_frame = <<>>
    /\ cur = 0
    /\ gps_frame_buf = <<>>
    /\ gps_frame = PErr
    /\ gps_records = PErr
    /\ out = <<>>
    /\ reads = <<>>
    /\ allocs = <<>>

\* A panic (expect, assert_eq!, overflow) or an Err returned from main:
\* the process ends with a non-zero status
Fail(kind) ==
    /\ pc' = "failed"
    /\ err' = kind

----------------------------------------------------------------------------
(* ginsta: src/src/main.rs, main *)

\* Seek to End(-HEADER_SIZE), read HEADER_SIZE bytes; the seek fails on a
\* file shorter than the trailer
OpenAndReadTrailer ==
    /\ pc = "open"
    /\ IF Length + HEADER_SIZE * (-1) < 0
       THEN /\ Fail("Truncated")
            /\ UNCHANGED <<trailer_vars, io_vars>>
       ELSE /\ buffer' = Slice(file, Length - HEADER_SIZE, HEADER_SIZE)
            /\ pos' = Length
            /\ reads' = Append(reads, [at |-> Length - HEADER_SIZE,
                                       len |-> HEADER_SIZE])
            /\ pc' = "header"
            /\ UNCHANGED <<err, header, metadata_pos, out, allocs>>
    /\ UNCHANGED <<ctl, index_vars, gps_vars>>

\* header_parser(&buffer).expect(..)
ParseHeader ==
    /\ pc = "header"
    /\ LET r == header_parser(buffer) IN
       IF ~r.ok
       THEN /\ Fail("BadSignature")
            /\ UNCHANGED header
       ELSE /\ header' = <<Val(r)>>
            /\ pc' = "anchor"
            /\ UNCHANGED err
    /\ UNCHANGED <<ctl, buffer, metadata_pos, index_vars, gps_vars, io_vars>>

\* metadata_pos = len - metadata_size as u64
ComputeAnchor ==
    /\ pc = "anchor"
    /\ IF Length - AsU64(header[1].metadata_size) < 0 /\ overflow_checks
       THEN /\ Fail("Overflow")
            /\ UNCHANGED metadata_pos
       ELSE /\ metadata_pos' = Length - AsU64(header[1].metadata_size)
            /\ pc' = "footer"
            /\ UNCHANGED err
    /\ UNCHANGED <<ctl, buffer, header, index_vars, gps_vars, io_vars>>

\* ReadFooter reading the 6 bytes that end where the trailer begins
ReadFooter_before_trailer ==
    /\ pc = "footer"
    /\ LET after  == Length + HEADER_SIZE * (-1)
           before == after + FRAME_HEADER_SIZE * (-1)
       IN  /\ before >= 0
           /\ frame_header_buf' = Slice(file, before, FRAME_HEADER_SIZE)
           /\ pos' = before + FRAME_HEADER_SIZE
           /\ reads' = Append(reads, [at |-> before, len |-> FRAME_HEADER_SIZE])
    /\ pc' = "check_footer"
    /\ UNCHANGED <<ctl, err, trailer_vars, footer, frame_buf, index_frame, cur,
                   gps_vars, out, allocs>>

\* Seek to End(-HEADER_SIZE + FRAME_HEADER_SIZE), back by FRAME_HEADER_SIZE,
\* read_exact FRAME_HEADER_SIZE bytes
ReadFooter ==
    /\ pc = "footer"
    /\ LET after  == Length + (HEADER_SIZE * (-1) + FRAME_HEADER_SIZE)
           before == after + FRAME_HEADER_SIZE * (-1)
       IN  /\ frame_header_buf' = Slice(file, before, FRAME_HEADER_SIZE)
           /\ pos' = before + FRAME_HEADER_SIZE
           /\ reads' = Append(reads, [at |-> before, len |-> FRAME_HEADER_SIZE])
    /\ pc' = "check_footer"
    /\ UNCHANGED <<ctl, err, trailer_vars, footer, frame_buf, index_frame, cur,
                   gps_vars, out, allocs>>

\* CheckFooter without the assert_eq!
CheckFooter_unasserted ==
    /\ pc = "check_footer"
    /\ LET r == frame_trailer(frame_header_buf) IN
       IF ~r.ok
       THEN /\ Fail("BadFooter")
            /\ UNCHANGED footer
       ELSE /\ footer' = <<Val(r)>>
            /\ pc' = "seek_index"
            /\ UNCHANGED err
    /\ UNCHANGED <<ctl, trailer_vars, frame_header_buf, frame_buf, index_frame,
                   cur, gps_vars, io_vars>>

\* frame_trailer(..), assert_eq!(frame_trailer.frame_type, FrameType::Index)
CheckFooter ==
    /\ pc = "check_footer"
    /\ LET r == frame_trailer(frame_header_buf) IN
       IF ~r.ok
       THEN /\ Fail("BadFooter")
            /\ UNCHANGED footer
       ELSE /\ footer' = <<Val(r)>>
            /\ IF Val(r).frame_type # "Index"
               THEN Fail("UnexpectedFrameType")
               ELSE pc' = "seek_index" /\ UNCHANGED err
    /\ UNCHANGED <<ctl, trailer_vars, frame_header_buf, frame_buf, index_frame,
                   cur, gps_vars, io_vars>>

I32Max == 2147483647

\* (frame_size + FRAME_HEADER_SIZE as i32) * -1 in wrapping i32 arithmetic
BackwardStep(frame_size) ==
    LET sum == IF frame_size > I32Max - FRAME_HEADER_SIZE
               THEN ((frame_size - I32Max) + (FRAME_HEADER_SIZE - I32Max)) - 2
               ELSE frame_size + FRAME_HEADER_SIZE
    IN  IF sum = (-I32Max) - 1 THEN sum ELSE sum * (-1)

BackwardStepOverflows(frame_size) ==
    \/ frame_size > I32Max - FRAME_HEADER_SIZE
    \/ frame_size + FRAME_HEADER_SIZE = (-I32Max) - 1

\* seek_relative by the footer's size; it fails on a negative position
SeekIndex ==
    /\ pc = "seek_index"
    /\ LET frame_size == footer[1].frame_size IN
       IF overflow_checks /\ BackwardStepOverflows(frame_size)
       THEN Fail("Overflow") /\ UNCHANGED pos
       ELSE IF pos + BackwardStep(frame_size) < 0
       THEN Fail("IoFailure") /\ UNCHANGED pos
       ELSE /\ pos' = pos + BackwardStep(frame_size)
            /\ pc' = "alloc_index"
            /\ UNCHANGED err
    /\ UNCHANGED <<ctl, trailer_vars, index_vars, gps_vars, out, reads, allocs>>

\* vec![0; frame_size as usize]: a negative i32 becomes a length above
\* isize::MAX and vec! panics before it allocates
AllocIndex ==
    /\ pc = "alloc_index"
    /\ IF footer[1].frame_size < 0
       THEN Fail("CapacityOverflow") /\ UNCHANGED allocs
       ELSE /\ allocs' = Append(allocs, [at |-> pos,
                                         len |-> footer[1].frame_size])
            /\ pc' = "read_index"
            /\ UNCHANGED err
    /\ UNCHANGED <<ctl, trailer_vars, index_vars, gps_vars, pos, out, reads>>

\* read_exact into the last buffer allocated: an error when the file ends
\* before the buffer is full
ReadIndex ==
    /\ pc = "read_index"
    /\ LET len == allocs[Len(allocs)].len IN
       /\ reads' = Append(reads, [at |-> pos, len |-> len])
       /\ IF pos + len > Length
          THEN Fail("IoFailure") /\ UNCHANGED <<frame_buf, pos>>
          ELSE /\ frame_buf' = Slice(file, pos, len)
               /\ pos' = pos + len
               /\ pc' = "parse_index"
               /\ UNCHANGED err
    /\ UNCHANGED <<ctl, trailer_vars, frame_header_buf, footer, index_frame,
                   cur, gps_vars, out, allocs>>

\* parse_index_frame(frame_buf).expect(..)
ParseIndex ==
    /\ pc = "parse_index"
    /\ LET r == parse_index_frame(frame_buf) IN
       IF ~r.ok
       THEN Fail("Misaligned") /\ UNCHANGED index_frame
       ELSE /\ index_frame' = Val(r).frames
            /\ pc' = "loop"
            /\ UNCHANGED err
    /\ UNCHANGED <<ctl, trailer_vars, frame_header_buf, footer, frame_buf, cur,
                   gps_vars, io_vars>>

\* What the match on frame.frame_type does with an entry
Dispatch(frame_type) == IF frame_type = "Gps" THEN "gps" ELSE "other"

\* The for loop is over: Ok(())
Finish ==
    /\ pc = "loop"
    /\ cur = Len(index_frame)
    /\ pc' = "done"
    /\ UNCHANGED <<ctl, err, trailer_vars, index_vars, gps_vars, io_vars>>

\* _ => debug!("Other frame")
SkipOther ==
    /\ pc = "loop"
    /\ cur < Len(index_frame)
    /\ Dispatch(index_frame[cur + 1].frame_type) = "other"
    /\ cur' = cur + 1
    /\ UNCHANGED <<ctl, pc, err, trailer_vars, frame_header_buf, footer,
                   frame_buf, index_frame, gps_vars, io_vars>>

\* FrameType::Gps: file_offset = metadata_pos + frame_offset in u64, then
\* seek(Start(file_offset)), which fails when file_offset as i64 < 0
SeekGps ==
    /\ pc = "loop"
    /\ cur < Len(index_frame)
    /\ Dispatch(index_frame[cur + 1].frame_type) = "gps"
    /\ LET file_offset == metadata_pos + AsU64(index_frame[cur + 1].frame_offset) IN
       IF metadata_pos < 0 /\ file_offset >= 0 /\ overflow_checks
       THEN Fail("Overflow") /\ UNCHANGED pos
       ELSE IF file_offset < 0
       THEN Fail("IoFailure") /\ UNCHANGED pos
       ELSE /\ pos' = file_offset
            /\ pc' = "alloc_gps"
            /\ UNCHANGED err
    /\ UNCHANGED <<ctl, trailer_vars, index_vars, gps_vars, out, reads, allocs>>

\* vec![0; frame.frame_size as usize]
AllocGps ==
    /\ pc = "alloc_gps"
    /\ allocs' = Append(allocs, [at |-> pos,
                                 len |-> AsU64(index_frame[cur + 1].frame_size)])
    /\ pc' = "read_gps"
    /\ UNCHANGED <<ctl, err, trailer_vars, index_vars, gps_vars, pos, out, reads>>

\* file.read_exact(gps_frame_buf)?
ReadGps ==
    /\ pc = "read_gps"
    /\ LET len == allocs[Len(allocs)].len IN
       /\ reads' = Append(reads, [at |-> pos, len |-> len])
       /\ IF pos + len > Length
          THEN Fail("IoFailure") /\ UNCHANGED <<gps_frame_buf, pos>>
          ELSE /\ gps_frame_buf' = Slice(file, pos, len)
               /\ pos' = pos + len
               /\ pc' = "parse_gps"
               /\ UNCHANGED err
    /\ UNCHANGED <<ctl, trailer_vars, index_vars, gps_frame, gps_records, out,
                   allocs>>

\* parse_gps_frame(gps_frame_buf).expect(..)
ParseGps ==
    /\ pc = "parse_gps"
    /\ gps_frame' = parse_gps_frame(gps_frame_buf)
    /\ IF ~gps_frame'.ok
       THEN Fail("GpsDecode")
       ELSE pc' = "emit" /\ UNCHANGED err
    /\ UNCHANGED <<ctl, trailer_vars, index_vars, gps_frame_buf, gps_records,
                   io_vars>>

\* A csv writer on stdout serializes every record of the frame and is
\* dropped, which flushes it, before the loop goes on
EmitGps ==
    /\ pc = "emit"
    /\ out' = out \o Val(gps_frame).records
    /\ cur' = cur + 1
    /\ pc' = "loop"
    /\ UNCHANGED <<ctl, err, trailer_vars, frame_header_buf, footer, frame_buf,
                   index_frame, gps_vars, pos, reads, allocs>>

----------------------------------------------------------------------------
(* insgps: src/src/bin/insgps.rs, main *)

\* file.read_to_end(&mut buffer)
InsRead ==
    /\ pc = "ins_read"
    /\ buffer' = file
    /\ pos' = Length
    /\ reads' = Append(reads, [at |-> 0, len |-> Length])
    /\ pc' = "ins_parse"
    /\ UNCHANGED <<ctl, err, header, metadata_pos, index_vars, gps_vars, out,
                   allocs>>

\* parse_gps_records(&buffer).expect(..)
InsParse ==
    /\ pc = "ins_parse"
    /\ gps_records' = parse_gps_records(buffer)
    /\ IF ~gps_records'.ok
       THEN Fail("GpsDecode")
       ELSE pc' = "ins_emit" /\ UNCHANGED err
    /\ UNCHANGED <<ctl, trailer_vars, index_vars, gps_frame_buf, gps_frame,
                   io_vars>>

InsEmit ==
    /\ pc = "ins_emit"
    /\ out' = out \o Val(gps_records)
    /\ pc' = "done"
    /\ UNCHANGED <<ctl, err, trailer_vars, index_vars, gps_vars, pos, reads,
                   allocs>>

----------------------------------------------------------------------------

Next ==
    \/ OpenAndReadTrailer
    \/ ParseHeader
    \/ ComputeAnchor
    \/ ReadFooter
    \/ CheckFooter
    \/ SeekIndex
    \/ AllocIndex
    \/ ReadIndex
    \/ ParseIndex
    \/ Finish
    \/ SkipOther
    \/ SeekGps
    \/ AllocGps
    \/ ReadGps
    \/ ParseGps
    \/ EmitGps
    \/ InsRead
    \/ InsParse
    \/ InsEmit

Spec == Init /\ [][Next]_vars

----------------------------------------------------------------------------
(* Properties *)

Ginsta == prog = "ginsta"

InsGps == prog = "insgps"

HasTrailer == Length >= HEADER_SIZE

\* The last 32 bytes of the file differ from the magic signature
SignatureMismatch ==
    Slice(file, Length - Len(SIGNATURE), Len(SIGNATURE)) # SIGNATURE

\* C1: when the last 32 bytes of the trailer differ from the signature, the
\* run fails with BadSignature having read only the trailer: no footer is
\* read, no index payload is read or decoded, no entry is resolved, no
\* buffer is allocated and no record is emitted.
C1_BadSignatureAborts ==
    (Ginsta /\ HasTrailer /\ SignatureMismatch) =>
        /\ pc \in {"open", "header", "failed"}
        /\ pc = "failed" => err = "BadSignature"
        /\ Len(reads) <= 1
        /\ header = <<>>
        /\ frame_header_buf = <<>>
        /\ footer = <<>>
        /\ frame_buf = <<>>
        /\ index_frame = <<>>
        /\ cur = 0
        /\ allocs = <<>>
        /\ out = <<>>

\* A file whose signature differs in its last byte only has failed
C1_Witness ==
    /\ Ginsta
    /\ pc = "failed"
    /\ err = "BadSignature"
    /\ Slice(file, Length - Len(SIGNATURE), Len(SIGNATURE) - 1)
         = Take(SIGNATURE, Len(SIGNATURE) - 1)
    /\ file[Length] = FlipBit(SIGNATURE[Len(SIGNATURE)])

\* C2: whenever a run has failed, nothing has been emitted.
C2_NoPartialOutput ==
    pc = "failed" => out = <<>>

\* C3: every buffer allocated and every read issued covers a byte range
\* that lies inside the file: an allocation of frame_size bytes happens
\* only once anchor + frame_offset + frame_size <= file_length is known.
\* Stated of the files whose anchor itself lies inside the file.
C3_PayloadInsideFile ==
    (Ginsta /\ metadata_pos >= 0 /\ metadata_pos < Length) =>
        /\ \A k \in 1..Len(allocs) :
              /\ allocs[k].at >= 0
              /\ allocs[k].at + allocs[k].len <= Length
        /\ \A k \in 1..Len(reads) :
              /\ reads[k].at >= 0
              /\ reads[k].at + reads[k].len <= Length

\* The raw type code of index entry j, as it stands in the index payload
RawCode(j) == frame_buf[(j - 1) * INDEX_ENTRY_SIZE + 1]

KnownCodes == 0..(Len(FrameTypeNames) - 1)

\* The for loop stands before an entry whose type code is not a known one
UnknownAtCursor ==
    /\ Ginsta
    /\ pc = "loop"
    /\ cur < Len(index_frame)
    /\ RawCode(cur + 1) \notin KnownCodes

\* C4: every byte outside the known codes maps to the fallback variant, and
\* the step the loop takes from an index entry with such a code goes to the
\* next entry without failing, reading, allocating, decoding or emitting.
C4_UnknownTypeSkipped ==
    /\ \A code \in 0..255 :
          /\ FrameTypeOf(code) \in FrameType
          /\ code \notin KnownCodes => FrameTypeOf(code) = "Raw"
    /\ [](Ginsta /\ pc \in {"loop", "done"} =>
            \A j \in 1..Len(index_frame) :
                RawCode(j) \notin KnownCodes => index_frame[j].frame_type = "Raw")
    /\ [][UnknownAtCursor =>
            /\ pc' = "loop"
            /\ cur' = cur + 1
            /\ err' = err
            /\ out' = out
            /\ reads' = reads
            /\ allocs' = allocs
            /\ gps_frame_buf' = gps_frame_buf
            /\ gps_frame' = gps_frame]_vars

\* An entry with code 99 came first, and the GPS frame after it was emitted
C4_Witness ==
    /\ Ginsta
    /\ pc = "done"
    /\ Len(index_frame) = 2
    /\ RawCode(1) = 99
    /\ RawCode(2) = 7
    /\ out # <<>>

\* The i-th whole record of a payload, i from 1
Chunk(payload, i) == Slice(payload, (i - 1) * GPS_RECORD_SIZE, GPS_RECORD_SIZE)

Chunks(payload) == Len(payload) \div GPS_RECORD_SIZE

\* The hemisphere bytes and the stored coordinates of an encoded record
NsByte(chunk) == chunk[20]

EwByte(chunk) == chunk[29]

StoredLatitude(chunk) == Val(le_f64(Slice(chunk, 11, 8)))

StoredLongitude(chunk) == Val(le_f64(Slice(chunk, 20, 8)))

HemispheresValid(chunk) ==
    /\ NsByte(chunk) \in {78, 83}
    /\ EwByte(chunk) \in {69, 87}

\* A concatenation of whole records with valid hemisphere bytes
WellFormedPayload(payload) ==
    /\ Len(payload) % GPS_RECORD_SIZE = 0
    /\ \A i \in 1..Chunks(payload) : HemispheresValid(Chunk(payload, i))

\* ginsta has just decoded gps_frame_buf into gps_frame
GpsFrameDecoded ==
    /\ Ginsta
    /\ \/ pc = "emit"
       \/ pc = "failed" /\ err = "GpsDecode"

\* insgps has just decoded buffer into gps_records
InsGpsDecoded ==
    /\ InsGps
    /\ \/ pc = "ins_emit"
       \/ pc = "failed" /\ err = "GpsDecode"

\* C5: a payload of exactly N well-formed records decodes to exactly N
\* records, the i-th being the decoding of the i-th encoded record; N = 0
\* gives the empty list.  In both binaries.
C5_RecordsInOrder ==
    /\ (GpsFrameDecoded /\ WellFormedPayload(gps_frame_buf)) =>
          /\ gps_frame.ok
          /\ Len(Val(gps_frame).records) = Chunks(gps_frame_buf)
          /\ \A i \in 1..Chunks(gps_frame_buf) :
                Val(gps_frame).records[i]
                  = Val(parse_gps_record(Chunk(gps_frame_buf, i)))
    /\ (InsGpsDecoded /\ WellFormedPayload(buffer)) =>
          /\ gps_records.ok
          /\ Len(Val(gps_records)) = Chunks(buffer)
          /\ \A i \in 1..Chunks(buffer) :
                Val(gps_records)[i]
                  = Val(ins_parse_gps_record(Chunk(buffer, i)))

\* Two different records were decoded from one frame
C5_Witness ==
    /\ GpsFrameDecoded
    /\ WellFormedPayload(gps_frame_buf)
    /\ Chunks(gps_frame_buf) = 2
    /\ Chunk(gps_frame_buf, 1) # Chunk(gps_frame_buf, 2)
    /\ Len(Val(gps_frame).records) = 2

\* The sign law as C6 states it, for a decoded record and the
\* encoded record it came from
SignLaw(record, chunk) ==
    /\ F64Lt0(record.latitude) <=> NsByte(chunk) = CharS
    /\ F64Lt0(record.longitude) <=> EwByte(chunk) = CharW

\* A payload with an invalid hemisphere byte in one of its whole records
\* does not decode
BadHemisphereFails(payload, result) ==
    (\E i \in 1..Chunks(payload) : ~HemispheresValid(Chunk(payload, i)))
        => ~result.ok

\* C6 as stated: every decoded record has latitude < 0 exactly when its
\* hemisphere byte is 'S' and longitude < 0 exactly when it is 'W', and an
\* invalid hemisphere byte fails the decode.
C6_SignLawAsStated ==
    /\ GpsFrameDecoded =>
          /\ BadHemisphereFails(gps_frame_buf, gps_frame)
          /\ gps_frame.ok =>
                \A i \in 1..Len(Val(gps_frame).records) :
                    SignLaw(Val(gps_frame).records[i], Chunk(gps_frame_buf, i))
    /\ InsGpsDecoded =>
          /\ BadHemisphereFails(buffer, gps_records)
          /\ gps_records.ok =>
                \A i \in 1..Len(Val(gps_records)) :
                    SignLaw(Val(gps_records)[i], Chunk(buffer, i))

\* What the decoders do: the stored value with its sign flipped under 'S'
\* (or 'W') and unchanged otherwise, so that the sign law holds of a stored
\* value above zero
SignRule(record, chunk) ==
    /\ record.latitude =
          (IF NsByte(chunk) = CharS THEN F64Neg(StoredLatitude(chunk))
           ELSE StoredLatitude(chunk))
    /\ record.longitude =
          (IF EwByte(chunk) = CharW THEN F64Neg(StoredLongitude(chunk))
           ELSE StoredLongitude(chunk))
    /\ F64Gt0(StoredLatitude(chunk)) =>
          (F64Lt0(record.latitude) <=> NsByte(chunk) = CharS)
    /\ F64Gt0(StoredLongitude(chunk)) =>
          (F64Lt0(record.longitude) <=> EwByte(chunk) = CharW)

\* C6 amended: every decoded record's latitude is the stored latitude,
\* negated when the hemisphere byte is 'S' (longitude: 'W'); it is below
\* zero exactly under 'S' (or 'W') when the stored value is above zero; an
\* invalid hemisphere byte fails the decode.
C6_SignRule ==
    /\ GpsFrameDecoded =>
          /\ BadHemisphereFails(gps_frame_buf, gps_frame)
          /\ gps_frame.ok =>
                \A i \in 1..Len(Val(gps_frame).records) :
                    SignRule(Val(gps_frame).records[i], Chunk(gps_frame_buf, i))
    /\ InsGpsDecoded =>
          /\ BadHemisphereFails(buffer, gps_records)
          /\ gps_records.ok =>
                \A i \in 1..Len(Val(gps_records)) :
                    SignRule(Val(gps_records)[i], Chunk(buffer, i))

\* A record stored above zero under 'S' was decoded below zero
C6_Witness ==
    /\ GpsFrameDecoded
    /\ gps_frame.ok
    /\ \E i \in 1..Len(Val(gps_frame).records) :
          /\ NsByte(Chunk(gps_frame_buf, i)) = CharS
          /\ F64Gt0(StoredLatitude(Chunk(gps_frame_buf, i)))
          /\ F64Lt0(Val(gps_frame).records[i].latitude)

\* C7: a payload whose length is not a multiple of the record width fails
\* to decode as a whole, and a decode that succeeds has consumed one full
\* record width for every record it returns.
C7_RaggedPayloadFails ==
    /\ GpsFrameDecoded =>
          /\ Len(gps_frame_buf) % GPS_RECORD_SIZE # 0 =>
                ~gps_frame.ok /\ pc = "failed"
          /\ gps_frame.ok =>
                Len(Val(gps_frame).records) * GPS_RECORD_SIZE = Len(gps_frame_buf)
    /\ InsGpsDecoded =>
          /\ Len(buffer) % GPS_RECORD_SIZE # 0 =>
                ~gps_records.ok /\ pc = "failed" /\ out = <<>>
          /\ gps_records.ok =>
                Len(Val(gps_records)) * GPS_RECORD_SIZE = Len(buffer)

\* One whole well-formed record followed by one more byte failed to decode
C7_Witness ==
    /\ GpsFrameDecoded
    /\ Len(gps_frame_buf) = GPS_RECORD_SIZE + 1
    /\ parse_gps_record(Take(gps_frame_buf, GPS_RECORD_SIZE)).ok
    /\ pc = "failed"

\* The footer has been read and its type code is not Index's
FooterNotIndex ==
    /\ Ginsta
    /\ frame_header_buf # <<>>
    /\ frame_header_buf[2] # 0

\* C8: when the footer read in the backward walk has a type other than
\* Index, the run fails with UnexpectedFrameType before the index payload is
\* sought, allocated, read or decoded, and nothing is emitted.
C8_FooterMustBeIndex ==
    FooterNotIndex =>
        /\ pc \in {"check_footer", "failed"}
        /\ pc = "failed" => err = "UnexpectedFrameType"
        /\ Len(reads) = 2
        /\ allocs = <<>>
        /\ frame_buf = <<>>
        /\ index_frame = <<>>
        /\ cur = 0
        /\ out = <<>>

\* A footer with the unknown code 99 has failed the run
C8_Witness ==
    /\ FooterNotIndex
    /\ frame_header_buf[2] = 99
    /\ footer # <<>>
    /\ footer[1].frame_type = "Raw"
    /\ pc = "failed"

AnchorComputed ==
    /\ Ginsta
    /\ header # <<>>
    /\ pc = "footer" \/ Len(reads) >= 2

\* C10: the anchor is file_length - metadata_total_size and lies in
\* [0, file_length); a metadata_total_size of 0 or above the file length
\* is rejected.
C10_AnchorInRange ==
    AnchorComputed =>
        /\ metadata_pos = Length - AsU64(header[1].metadata_size)
        /\ metadata_pos >= 0
        /\ metadata_pos < Length
        /\ AsU64(header[1].metadata_size) # 0
        /\ AsU64(header[1].metadata_size) <= Length

=============================================================================
